---- MODULE Spec2Model ----
(***************************************************************************)
(* Model of the portfolio backend (src/main.py): the MongoDB connection    *)
(* lifecycle, the three submission validators, and the three request       *)
(* handlers with their store insert and e-mail notification steps.         *)
(*                                                                         *)
(* Python str values are sequences of one-character strings; None is the   *)
(* one-element sequence NoneVal, which is no str.  Response texts, type    *)
(* tags and exception texts are only ever compared for equality and are    *)
(* TLA+ strings.  uuid.uuid4() is modelled as a generator of fresh         *)
(* identifiers, datetime.now() as a logical clock.                         *)
(***************************************************************************)
EXTENDS Integers, Sequences, FiniteSets, TLC

\* ------------------------------------------------------------------ bounds
MaxRequests == 2          \* submissions per behaviour
MsgSlack == 2             \* message lengths explored around the limit
MaxLiveRequests == 1      \* submissions per behaviour under fairness

\* ------------------------------------------------------- program constants
CONNECT_MAX_ATTEMPTS == 5
CONNECT_WAIT_MIN == 4
CONNECT_WAIT_MAX == 10
EMAIL_MAX_ATTEMPTS == 3
EMAIL_WAIT_MIN == 2
EMAIL_WAIT_MAX == 5
MAX_MESSAGE_LEN == 1000

Reqs == 1..MaxRequests

\* --------------------------------------------------------- python helpers
NoneVal == <<"None">>

Rep(c, n) == [i \in 1..n |-> c]

IsSpace(c) == c \in {" ", "\t", "\n"}

\* str.strip(): drop leading and trailing whitespace
strip(s) ==
  LET n == Len(s)
      first == CHOOSE i \in 1..(n + 1) :
                 /\ i = n + 1 \/ ~IsSpace(s[i])
                 /\ \A j \in 1..(i - 1) : IsSpace(s[j])
      last == CHOOSE i \in 0..n :
                 /\ i = 0 \/ ~IsSpace(s[i])
                 /\ \A j \in (i + 1)..n : IsSpace(s[j])
  IN IF first > n THEN <<>> ELSE SubSeq(s, first, last)

\* truth value of an Optional[str]: None and "" are falsy
Truthy(v) == v # NoneVal /\ v # <<>>

S_company == <<"c","o","m","p","a","n","y">>
S_individual == <<"i","n","d","i","v","i","d","u","a","l">>

\* ------------------------------------------------------------- exceptions
NoException == [cls |-> "None"]

HTTPException(code, text) ==
  [cls |-> "HTTPException", status_code |-> code, detail |-> text]

Raised(c, t) == [cls |-> c, text |-> t]

\* classes for which isinstance(e, PyMongoError) holds
PyMongoErrorClasses == {"PyMongoError", "ConnectionFailure", "OperationFailure"}

\* classes for which isinstance(e, ConnectionFailure) holds
ConnectionFailureClasses == {"ConnectionFailure"}

FALLBACK_DETAIL ==
  "An error occurred. Please try again or contact Muhammad directly at ahmadrajpootr1@gmail.com."

\* -------------------------------------------------------------- validators
validate_project_details(details) ==
  IF ~Truthy(details.contactEmail)
    THEN HTTPException(400, "Contact email is required")
  ELSE IF Truthy(details.clientType)
          /\ details.clientType \notin {S_company, S_individual}
    THEN HTTPException(400, "Invalid client type")
  ELSE IF details.clientType = S_company /\ ~Truthy(details.companyName)
    THEN HTTPException(400, "Company name is required for company client type")
  ELSE IF details.clientType = S_individual /\ ~Truthy(details.clientName)
    THEN HTTPException(400, "Client name is required for individual client type")
  ELSE NoException

validate_hiring_details(details) ==
  IF details.clientType # S_company
    THEN HTTPException(400, "Client type must be 'company' for hiring requests")
  ELSE IF strip(details.companyName) = <<>>
    THEN HTTPException(400, "Company name is required")
  ELSE IF strip(details.positionTitle) = <<>>
    THEN HTTPException(400, "Position title is required")
  ELSE IF strip(details.budget) = <<>>
    THEN HTTPException(400, "Budget is required")
  ELSE IF strip(details.timeline) = <<>>
    THEN HTTPException(400, "Timeline is required")
  ELSE IF strip(details.requirements) = <<>>
    THEN HTTPException(400, "Requirements are required")
  ELSE IF ~Truthy(details.contactEmail)
    THEN HTTPException(400, "Contact email is required")
  ELSE NoException

\* variant: the limit is compared with >=
validate_contact_details_ge(details) ==
  IF strip(details.name) = <<>>
    THEN HTTPException(400, "Name is required")
  ELSE IF strip(details.message) = <<>>
    THEN HTTPException(400, "Message is required")
  ELSE IF Len(details.message) >= MAX_MESSAGE_LEN
    THEN HTTPException(400, "Message cannot exceed 1000 characters")
  ELSE NoException

validate_contact_details(details) ==
  IF strip(details.name) = <<>>
    THEN HTTPException(400, "Name is required")
  ELSE IF strip(details.message) = <<>>
    THEN HTTPException(400, "Message is required")
  ELSE IF Len(details.message) > MAX_MESSAGE_LEN
    THEN HTTPException(400, "Message cannot exceed 1000 characters")
  ELSE NoException

validate(kind, details) ==
  CASE kind = "project" -> validate_project_details(details)
    [] kind = "hiring"  -> validate_hiring_details(details)
    [] kind = "contact" -> validate_contact_details(details)

\* ------------------------------------------------------------ retry policy
\* variant: the min= bound of the wait is not applied
wait_exponential_no_min(n, lo, hi) ==
  LET exp == 2 ^ (n - 1)
  IN IF exp < hi THEN exp ELSE hi

\* tenacity wait_exponential(multiplier=1, min=lo, max=hi) before the retry
\* that follows attempt number n
wait_exponential(n, lo, hi) ==
  LET exp == 2 ^ (n - 1)
      capped == IF exp < hi THEN exp ELSE hi
  IN IF capped > lo THEN capped ELSE lo

\* variant: stop_after_attempt(6) on connect_to_mongodb
retry_connect_six(e, n) ==
  e.cls \in ConnectionFailureClasses /\ n < CONNECT_MAX_ATTEMPTS + 1

\* variant: retry_if_exception_type(Exception) on connect_to_mongodb
retry_connect_any(e, n) == n < CONNECT_MAX_ATTEMPTS

\* @retry on connect_to_mongodb: retry after attempt n raised e ?
retry_connect(e, n) ==
  e.cls \in ConnectionFailureClasses /\ n < CONNECT_MAX_ATTEMPTS

\* variant: a failed insert is tried once more
retry_insert_once(e, n) == n < 2

\* collection.insert_one is awaited bare, under no retry policy: retry after
\* insert number n raised e ?
retry_insert(e, n) == FALSE

\* variant: stop_after_attempt(4) on send_email
retry_email_four(e, n) == n < EMAIL_MAX_ATTEMPTS + 1

\* @retry on send_email: retry after attempt n raised e ?
\* (retry_if_exception_type(Exception) matches every provider fault)
retry_email(e, n) == n < EMAIL_MAX_ATTEMPTS

\* what tenacity raises when it gives up: the fault itself when the retry
\* predicate rejects it, RetryError when the attempts are exhausted
giveup_error(e, retryable) ==
  IF retryable THEN Raised("RetryError", "RetryError[<Future state=finished raised>]")
  ELSE e

\* ------------------------------------------------------------------ state
VARIABLES
  RESEND_API_KEY,   \* TRUE iff an e-mail credential is configured
  client,           \* global client: 0 = None, else the handle last opened
  db,               \* global db: 0 = None, else the handle it belongs to
  collection,       \* global collection: 0 = None, else the handle it belongs to
  handles,          \* handles[h] = number of close() calls on client handle h
  attempt_number,   \* tenacity attempt counter of connect_to_mongodb
  connLog,          \* outcome of each connection attempt so far
  connWaits,        \* backoff waits slept between connection attempts
  lifespan,         \* "starting", "connecting", "serving", "startup_failed", "stopped"
  startupError,     \* what startup_event raised
  store,            \* documents of the project_requests collection
  nextUuid,         \* next fresh uuid4
  clock,            \* datetime.now()
  req,              \* the request handlers, by arrival order
  vIn,              \* validator under test: its input
  vOut              \* validator under test: its result

vars == <<RESEND_API_KEY, client, db, collection, handles, attempt_number,
          connLog, connWaits, lifespan, startupError, store, nextUuid, clock,
          req, vIn, vOut>>

connVars == <<client, db, collection, handles, attempt_number, connLog,
              connWaits, lifespan, startupError>>

valVars == <<vIn, vOut>>

NoResponse == [status |-> 0]

IdleReq ==
  [pc |-> "idle", kind |-> "none", details |-> <<>>, data |-> <<>>,
   inserts |-> 0, insert_out |-> [cls |-> "pending"], stored_at |-> 0,
   calls |-> 0, raised |-> 0, delivered |-> 0, waits |-> <<>>,
   exc |-> NoException, resp |-> NoResponse]

\* ------------------------------------------------------ connection manager
\* outcomes of AsyncIOMotorClient(...) followed by the ping
PingOutcomes ==
  { NoException,
    Raised("ConnectionFailure", "localhost:27017: [Errno 111] Connection refused"),
    Raised("OperationFailure", "Authentication failed.") }

\* variant: startup_event logs the fault and returns
startup_event_swallows(e) ==
  [lifespan |-> "serving", error |-> NoException]

\* startup_event: any fault of connect_to_mongodb is re-raised as an
\* HTTPException, which aborts application startup
startup_event_failure(e) ==
  [lifespan |-> "startup_failed",
   error |-> HTTPException(500, "Database connection failed")]

\* variant: db and collection are assigned before the ping is awaited
globals_after_attempt_early(out, h, old) == h

\* the globals db and collection after an attempt: assigned only behind the
\* awaited ping, so only when it returned
globals_after_attempt(out, h, old) ==
  IF out.cls = "None" THEN h ELSE old

\* an attempt is under way: its client is open and its ping has not returned
PingPending == Len(handles) = Len(connLog) + 1

\* connect_to_mongodb up to its suspension point: a new client replaces the
\* global one and the ping is awaited
ConnectAttempt ==
  /\ lifespan \in {"starting", "connecting"}
  /\ ~PingPending
  /\ client' = Len(handles) + 1
  /\ handles' = Append(handles, 0)
  /\ lifespan' = "connecting"
  /\ UNCHANGED <<db, collection, attempt_number, connLog, connWaits, startupError>>
  /\ UNCHANGED <<RESEND_API_KEY, store, nextUuid, clock, req, valVars>>

\* the ping returns or raises; tenacity sleeps and retries, or gives up and
\* startup_event fails
PingReturn ==
  /\ lifespan = "connecting"
  /\ PingPending
  /\ \E out \in PingOutcomes :
       LET n == attempt_number
       IN /\ connLog' = Append(connLog, out.cls)
          /\ db' = globals_after_attempt(out, client, db)
          /\ collection' = globals_after_attempt(out, client, collection)
          /\ IF out.cls = "None"
               THEN /\ lifespan' = "serving"
                    /\ UNCHANGED <<attempt_number, connWaits, startupError>>
             ELSE IF retry_connect(out, n)
               THEN /\ attempt_number' = n + 1
                    /\ connWaits' = Append(connWaits,
                          wait_exponential(n, CONNECT_WAIT_MIN, CONNECT_WAIT_MAX))
                    /\ UNCHANGED <<lifespan, startupError>>
             ELSE LET f == startup_event_failure(
                              giveup_error(out, out.cls \in ConnectionFailureClasses))
                  IN /\ lifespan' = f.lifespan
                     /\ startupError' = f.error
                     /\ UNCHANGED <<attempt_number, connWaits>>
  /\ UNCHANGED <<client, handles>>
  /\ UNCHANGED <<RESEND_API_KEY, store, nextUuid, clock, req, valVars>>

shutdown_event ==
  /\ lifespan = "serving"
  /\ \A r \in Reqs : req[r].pc \in {"idle", "done"}
  /\ lifespan' = "stopped"
  /\ handles' = IF client # 0 THEN [handles EXCEPT ![client] = @ + 1] ELSE handles
  /\ UNCHANGED <<client, db, collection, attempt_number, connLog, connWaits,
                 startupError>>
  /\ UNCHANGED <<RESEND_API_KEY, store, nextUuid, clock, req, valVars>>

\* --------------------------------------------------------- request handlers
Kinds == {"project", "hiring", "contact"}

TypeTag(kind) ==
  CASE kind = "project" -> "project_request"
    [] kind = "hiring"  -> "hiring_request"
    [] kind = "contact" -> "contact_request"

SuccessMessage(kind) ==
  CASE kind = "project" ->
         "Project request submitted successfully. Muhammad Ahmad will contact you soon!"
    [] kind = "hiring" ->
         "Hiring request submitted successfully. Muhammad Ahmad will contact you soon!"
    [] kind = "contact" ->
         "Your message has been sent to Muhammad Ahmad. He will contact you soon!"

StoreFailedDetail(kind) ==
  CASE kind = "project" -> "Failed to store project details"
    [] kind = "hiring"  -> "Failed to store hiring details"
    [] kind = "contact" -> "Failed to store contact details"

\* the PyMongoError the handler itself raises on a falsy inserted_id
NoInsertedIdError(kind) ==
  CASE kind = "project" ->
         Raised("PyMongoError", "Failed to store project details in MongoDB")
    [] kind = "hiring" ->
         Raised("PyMongoError", "Failed to store hiring details in MongoDB")
    [] kind = "contact" ->
         Raised("PyMongoError", "Failed to store contact details in MongoDB")

\* str(uuid.uuid4()) of the n-th generated uuid
uuid4_str(n) == <<"u", n>>

\* details.model_dump(): ProjectDetails is dumped with exclude_unset=True,
\* an unset optional field being one that holds None
model_dump(kind, details) ==
  IF kind = "project"
    THEN [k \in {f \in DOMAIN details : details[f] # NoneVal} |-> details[k]]
    ELSE details

\* variant: every handler writes the project tag
build_record_project_tag(kind, details, now, uuid) ==
  [created_at |-> now, type |-> "project_request", request_id |-> uuid4_str(uuid)]
    @@ model_dump(kind, details)

\* variant: the identifier is generated once, not per request
build_record_fixed_id(kind, details, now, uuid) ==
  [created_at |-> now, type |-> TypeTag(kind), request_id |-> uuid4_str(1)]
    @@ model_dump(kind, details)

\* the document handed to insert_one: the dump plus the three system fields
build_record(kind, details, now, uuid) ==
  [created_at |-> now, type |-> TypeTag(kind), request_id |-> uuid4_str(uuid)]
    @@ model_dump(kind, details)

\* variant: the "except HTTPException: raise e" clause is missing
handler_except_no_reraise(kind, e) ==
  IF e.cls \in PyMongoErrorClasses
    THEN [status |-> 500, detail |-> StoreFailedDetail(kind)]
  ELSE [status |-> 500, detail |-> FALLBACK_DETAIL]

\* variant: the generic clause reports str(e)
handler_except_leaks(kind, e) ==
  IF e.cls = "HTTPException"
    THEN [status |-> e.status_code, detail |-> e.detail]
  ELSE IF e.cls \in PyMongoErrorClasses
    THEN [status |-> 500, detail |-> StoreFailedDetail(kind)]
  ELSE [status |-> 500, detail |-> e.text]

\* the except clauses of a handler: the response for a raised exception
handler_except(kind, e) ==
  IF e.cls = "HTTPException"
    THEN [status |-> e.status_code, detail |-> e.detail]
  ELSE IF e.cls \in PyMongoErrorClasses
    THEN [status |-> 500, detail |-> StoreFailedDetail(kind)]
  ELSE [status |-> 500, detail |-> FALLBACK_DETAIL]

\* variant: the identifier is kept in a module global shared by the handlers
success_response_shared_id(kind, data, email_sent) ==
  [status |-> 200, message |-> SuccessMessage(kind),
   request_id |-> uuid4_str(nextUuid - 1), email_sent |-> email_sent]

\* the return statement of a handler
success_response(kind, data, email_sent) ==
  [status |-> 200, message |-> SuccessMessage(kind),
   request_id |-> data.request_id, email_sent |-> email_sent]

\* variant: the inserted_id of the result is not looked at
insert_result_unchecked(kind, out) ==
  IF out.cls # "None" THEN out ELSE NoException

\* the outcome of insert_one as the handler sees it: the exception to
\* handle, NoException when the result carries an inserted_id
insert_result(kind, out) ==
  IF out.cls # "None" THEN out
  ELSE IF ~out.inserted_id THEN NoInsertedIdError(kind)
  ELSE NoException

\* variant: the credential check is missing
send_email_skips_never(key) == FALSE

\* send_email returns False at once when no credential is configured
send_email_skips(key) == ~key

S_email == <<"a","@","b",".","c">>
S_acme == <<"A","c","m","e">>

ProjectDetails(ct, cn, co) ==
  [clientType |-> ct, clientName |-> cn, companyName |-> co,
   projectType |-> NoneVal, budget |-> NoneVal, timeline |-> NoneVal,
   requirements |-> NoneVal, contactEmail |-> S_email]

HiringDetails(ct, co, pt, bu, ti, rq) ==
  [clientType |-> ct, companyName |-> co, positionTitle |-> pt, budget |-> bu,
   timeline |-> ti, requirements |-> rq, contactEmail |-> S_email]

ContactDetails(nm, msg) == [name |-> nm, email |-> S_email, message |-> msg]

\* request bodies the handlers are driven with
Payloads ==
  { [kind |-> "project", details |-> ProjectDetails(S_company, NoneVal, S_acme)],
    [kind |-> "project", details |-> ProjectDetails(S_company, NoneVal, NoneVal)],
    [kind |-> "hiring",
     details |-> HiringDetails(S_company, S_acme, <<"d","e","v">>, <<"1">>,
                               <<"2">>, <<"x">>)],
    [kind |-> "hiring",
     details |-> HiringDetails(S_individual, S_acme, <<"d","e","v">>, <<"1">>,
                               <<"2">>, <<"x">>)],
    [kind |-> "contact", details |-> ContactDetails(<<"B","o">>, <<"h","i">>)],
    [kind |-> "contact", details |-> ContactDetails(<<"B","o">>, <<" ">>)] }

\* faults insert_one can raise, and its two ways of returning
InsertOutcomes ==
  { [cls |-> "None", inserted_id |-> TRUE],
    [cls |-> "None", inserted_id |-> FALSE],
    Raised("ConnectionFailure", "connection closed"),
    Raised("OperationFailure", "not authorized on portfolio"),
    Raised("InvalidDocument", "cannot encode object") }

ProviderOutcomes ==
  { NoException, Raised("ResendError", "API key is invalid") }

\* the handler ends in one of its except clauses
Fail(rq, e) ==
  [rq EXCEPT !.pc = "done", !.exc = e, !.resp = handler_except(rq.kind, e)]

\* the handler ends at its return statement
Succeed(rq, email_sent) ==
  [rq EXCEPT !.pc = "done", !.resp = success_response(rq.kind, rq.data, email_sent)]

\* the handler up to its first suspension point: validation, the record,
\* and the call of collection.insert_one
Submit(r) ==
  /\ lifespan = "serving"
  /\ req[r].pc = "idle"
  /\ IF r = 1 THEN TRUE ELSE req[r - 1].pc # "idle"
  /\ \E p \in Payloads :
       LET e == validate(p.kind, p.details)
           rq == [req[r] EXCEPT !.kind = p.kind, !.details = p.details]
           built == [rq EXCEPT
                       !.data = build_record(p.kind, p.details, clock, nextUuid)]
       IN IF e.cls # "None"
            THEN /\ req' = [req EXCEPT ![r] = Fail(rq, e)]
                 /\ UNCHANGED <<nextUuid, clock>>
          ELSE /\ nextUuid' = nextUuid + 1
               /\ clock' = clock + 1
               /\ IF collection = 0
                    THEN req' = [req EXCEPT ![r] =
                           Fail(built, Raised("AttributeError",
                                  "'NoneType' object has no attribute 'insert_one'"))]
                    ELSE req' = [req EXCEPT ![r] =
                           [built EXCEPT !.pc = "insert", !.inserts = 1]]
  /\ UNCHANGED <<RESEND_API_KEY, store, connVars, valVars>>

\* insert_one returns or raises; on success send_email starts
InsertReturn(r) ==
  /\ req[r].pc = "insert"
  /\ \E out \in InsertOutcomes :
       LET e == insert_result(req[r].kind, out)
           rq == [req[r] EXCEPT !.insert_out = out]
       IN IF e.cls # "None"
            THEN /\ req' = [req EXCEPT ![r] =
                          IF retry_insert(e, rq.inserts)
                            THEN [rq EXCEPT !.inserts = @ + 1]
                            ELSE Fail(rq, e)]
                 /\ UNCHANGED store
          ELSE /\ store' = Append(store, rq.data)
               /\ LET written == [rq EXCEPT !.stored_at = Len(store) + 1]
                  IN IF send_email_skips(RESEND_API_KEY)
                       THEN req' = [req EXCEPT ![r] = Succeed(written, FALSE)]
                       ELSE req' = [req EXCEPT ![r] =
                              [written EXCEPT !.pc = "send", !.calls = 1]]
  /\ UNCHANGED <<RESEND_API_KEY, nextUuid, clock, connVars, valVars>>

\* resend.Emails.send returns or raises; tenacity retries or gives up
ProviderReturn(r) ==
  /\ req[r].pc = "send"
  /\ \E out \in ProviderOutcomes :
       LET n == req[r].calls
           rq == [req[r] EXCEPT
                    !.raised = IF out.cls = "None" THEN @ ELSE @ + 1,
                    !.delivered = IF out.cls = "None" THEN @ + 1 ELSE @]
       IN IF out.cls = "None"
            THEN req' = [req EXCEPT ![r] = Succeed(rq, TRUE)]
          ELSE IF retry_email(out, n)
            THEN req' = [req EXCEPT ![r] =
                   [rq EXCEPT !.calls = n + 1,
                              !.waits = Append(@, wait_exponential(n, EMAIL_WAIT_MIN,
                                                                   EMAIL_WAIT_MAX))]]
          ELSE req' = [req EXCEPT ![r] = Fail(rq, giveup_error(out, TRUE))]
  /\ UNCHANGED <<RESEND_API_KEY, store, nextUuid, clock, connVars, valVars>>

\* ------------------------------------------------------------ specification
Init ==
  /\ RESEND_API_KEY \in BOOLEAN
  /\ client = 0
  /\ db = 0
  /\ collection = 0
  /\ handles = <<>>
  /\ attempt_number = 1
  /\ connLog = <<>>
  /\ connWaits = <<>>
  /\ lifespan = "starting"
  /\ startupError = NoException
  /\ store = <<>>
  /\ nextUuid = 1
  /\ clock = 1
  /\ req = [r \in Reqs |-> IdleReq]
  /\ vIn = [kind |-> "none"]
  /\ vOut = [cls |-> "pending"]

Next ==
  \/ ConnectAttempt
  \/ PingReturn
  \/ shutdown_event
  \/ \E r \in Reqs : Submit(r)
  \/ \E r \in Reqs : InsertReturn(r)
  \/ \E r \in Reqs : ProviderReturn(r)

Spec == Init /\ [][Next]_vars

\* the same system with fairness, for the requests that arrive first: every
\* awaited call returns or raises and the event loop resumes whoever waits
\* for it, so the ping, the insert and the provider call are answered, and
\* a retry of the connection is started once its wait is over
LiveReqs == 1..MaxLiveRequests

NextLive ==
  \/ ConnectAttempt
  \/ PingReturn
  \/ shutdown_event
  \/ \E r \in LiveReqs : Submit(r)
  \/ \E r \in LiveReqs : InsertReturn(r)
  \/ \E r \in LiveReqs : ProviderReturn(r)

Fairness ==
  /\ WF_vars(ConnectAttempt)
  /\ WF_vars(PingReturn)
  /\ \A r \in LiveReqs : WF_vars(InsertReturn(r)) /\ WF_vars(ProviderReturn(r))

SpecLive == Init /\ [][NextLive]_vars /\ Fairness

\* ------------------------------------------- the validators on their own
S_blank == <<" ", "\t">>
S_padded == <<" ", "x", " ">>

ProjectInputs ==
  { ProjectDetails(ct, cn, co) :
      ct \in {NoneVal, <<>>, S_company, S_individual, <<"o","r","g">>,
              <<"C","o","m","p","a","n","y">>},
      cn \in {NoneVal, <<>>, <<"B","o">>},
      co \in {NoneVal, <<>>, S_acme} }

HiringText == {<<>>, S_blank, S_padded}

HiringInputs ==
  { HiringDetails(ct, co, pt, bu, ti, rq) :
      ct \in {S_company, S_individual, <<>>},
      co \in HiringText, pt \in HiringText, bu \in HiringText,
      ti \in HiringText, rq \in HiringText }

MsgLens == {0, 1} \cup ((MAX_MESSAGE_LEN - MsgSlack)..(MAX_MESSAGE_LEN + MsgSlack))

Messages ==
  {Rep("a", n) : n \in MsgLens}
    \cup {Rep(" ", n) : n \in MsgLens}
    \cup {<<" ">> \o Rep("a", n - 1) : n \in MsgLens \ {0}}

ContactInputs ==
  { ContactDetails(nm, msg) : nm \in {<<>>, S_blank, <<"B","o">>}, msg \in Messages }

ValidatorInputs ==
  {[kind |-> "project", details |-> d] : d \in ProjectInputs}
    \cup {[kind |-> "hiring", details |-> d] : d \in HiringInputs}
    \cup {[kind |-> "contact", details |-> d] : d \in ContactInputs}

InitValidate ==
  /\ RESEND_API_KEY = FALSE
  /\ client = 0
  /\ db = 0
  /\ collection = 0
  /\ handles = <<>>
  /\ attempt_number = 1
  /\ connLog = <<>>
  /\ connWaits = <<>>
  /\ lifespan = "starting"
  /\ startupError = NoException
  /\ store = <<>>
  /\ nextUuid = 1
  /\ clock = 1
  /\ req = [r \in Reqs |-> IdleReq]
  /\ vIn \in ValidatorInputs
  /\ vOut = [cls |-> "pending"]

Validate ==
  /\ vOut.cls = "pending"
  /\ vOut' = validate(vIn.kind, vIn.details)
  /\ UNCHANGED <<vIn, RESEND_API_KEY, store, nextUuid, clock, req, connVars>>

NextValidate == Validate

SpecValidate == InitValidate /\ [][NextValidate]_vars

\* ================================================================ claims
Done(r) == req[r].pc = "done"

Stored(r) == req[r].stored_at # 0

NonBlank(t) == \E i \in 1..Len(t) : t[i] \notin {" ", "\t", "\n"}

Rejected400(e) == e.cls = "HTTPException" /\ e.status_code = 400

\* C1: a request whose three provider attempts all raised (credential
\* configured, submission valid, insert succeeded) ends with a 200 response
\* carrying email_sent = false, and its record is in the store.
C1_ExhaustionIsSuccess ==
  \A r \in Reqs :
    (Done(r) /\ req[r].raised = 3) =>
      /\ req[r].resp.status = 200
      /\ req[r].resp.email_sent = FALSE
      /\ Stored(r)
      /\ store[req[r].stored_at] = req[r].data

\* C2: a submission that fails validation is answered with 400 at once; the
\* handler has issued no insert and no provider call, and wrote no record.
C2_InvalidRejectedWithoutEffects ==
  \A r \in Reqs :
    (req[r].pc # "idle" /\ validate(req[r].kind, req[r].details).cls # "None") =>
      /\ Done(r)
      /\ req[r].resp.status = 400
      /\ req[r].inserts = 0
      /\ req[r].calls = 0
      /\ ~Stored(r)

C2_Witness ==
  \E r \in Reqs :
    /\ Done(r)
    /\ req[r].kind = "hiring"
    /\ req[r].details.clientType # S_company
    /\ req[r].resp.status = 400
    /\ Len(store) = 0

\* C3: when the insert of a valid submission raises a store fault or returns
\* no inserted_id, the response is 500 with the kind's "Failed to store ..."
\* detail and no provider call was made.
C3_InsertFailed(r) ==
  \/ req[r].insert_out.cls \in {"PyMongoError", "ConnectionFailure", "OperationFailure"}
  \/ req[r].insert_out.cls = "None" /\ ~req[r].insert_out.inserted_id

C3_Detail(kind) ==
  CASE kind = "project" -> "Failed to store project details"
    [] kind = "hiring"  -> "Failed to store hiring details"
    [] kind = "contact" -> "Failed to store contact details"

C3_StoreFailureIs500 ==
  \A r \in Reqs :
    C3_InsertFailed(r) =>
      /\ Done(r)
      /\ req[r].resp = [status |-> 500, detail |-> C3_Detail(req[r].kind)]
      /\ req[r].calls = 0
      /\ ~Stored(r)

C3_Witness ==
  \E r1, r2 \in Reqs :
    /\ req[r1].insert_out.cls = "None" /\ ~req[r1].insert_out.inserted_id
    /\ req[r1].resp.status = 500
    /\ req[r2].insert_out.cls = "ConnectionFailure"
    /\ req[r2].resp.status = 500

\* C4: without a credential, a request whose insert succeeded ends with 200
\* and email_sent = false, its record is stored, and the notifier made no
\* provider call and no retry.
C4_NoCredentialSkips ==
  \A r \in Reqs :
    (~RESEND_API_KEY /\ Stored(r)) =>
      /\ Done(r)
      /\ req[r].resp.status = 200
      /\ req[r].resp.email_sent = FALSE
      /\ store[req[r].stored_at] = req[r].data
      /\ req[r].calls = 0
      /\ req[r].raised = 0
      /\ req[r].waits = <<>>

C4_Witness ==
  \E r \in Reqs :
    /\ ~RESEND_API_KEY
    /\ Stored(r)
    /\ req[r].resp.status = 200

\* C5: after five consecutive connectivity faults no sixth attempt is made,
\* startup has failed with a reported error, the store handle is unset and
\* no request handler has run.
C5_FiveFaults ==
  /\ Len(connLog) >= 5
  /\ \A i \in 1..5 : connLog[i] = "ConnectionFailure"

C5_StartupFailsAfterFive ==
  C5_FiveFaults =>
    /\ Len(connLog) = 5
    /\ lifespan = "startup_failed"
    /\ startupError.cls = "HTTPException"
    /\ collection = 0
    /\ \A r \in Reqs : req[r].pc = "idle"

C5_Witness == C5_FiveFaults /\ lifespan = "startup_failed"

\* C6: every stored document carries a non-empty request_id, a created_at
\* and the type tag of the endpoint that wrote it, and a 200 response
\* returns the request_id of the document its own request inserted.
C6_Tag(kind) ==
  CASE kind = "project" -> "project_request"
    [] kind = "hiring"  -> "hiring_request"
    [] kind = "contact" -> "contact_request"
    [] OTHER -> "none"

C6_RecordsWellFormed ==
  /\ \A i \in 1..Len(store) :
       /\ {"request_id", "created_at", "type"} \subseteq DOMAIN store[i]
       /\ Truthy(store[i].request_id)
       /\ store[i].created_at >= 1
       /\ \E r \in Reqs : req[r].stored_at = i /\ store[i].type = C6_Tag(req[r].kind)
  /\ \A r \in Reqs :
       (Done(r) /\ req[r].resp.status = 200) =>
         /\ Stored(r)
         /\ req[r].resp.request_id = store[req[r].stored_at].request_id

C6_Witness ==
  \E r1, r2 \in Reqs :
    /\ req[r1].kind = "hiring" /\ req[r1].resp.status = 200
    /\ req[r2].kind = "contact" /\ req[r2].resp.status = 200
    /\ Len(store) = 2

\* C7: the store holds exactly one document per successful insert, also for
\* identical payloads, and no two documents share a request_id.
C7_NoDeduplication ==
  /\ Len(store) =
       Cardinality({r \in Reqs : req[r].insert_out.cls = "None"
                                   /\ req[r].insert_out.inserted_id})
  /\ \A i, j \in 1..Len(store) :
       i # j => store[i].request_id # store[j].request_id

C7_Witness ==
  \E r1, r2 \in Reqs :
    /\ r1 # r2
    /\ Stored(r1) /\ Stored(r2)
    /\ req[r1].kind = req[r2].kind
    /\ req[r1].details = req[r2].details
    /\ store[req[r1].stored_at].request_id # store[req[r2].stored_at].request_id

\* C8: a Project Request whose clientType is present and is neither
\* "company" nor "individual" (the empty string included) is rejected with
\* 400; so is "company" without companyName and "individual" without
\* clientName.
C8_ProjectClientTypeRules ==
  (vOut.cls # "pending" /\ vIn.kind = "project") =>
    LET d == vIn.details
    IN /\ (d.clientType # NoneVal /\ d.clientType \notin {S_company, S_individual})
             => Rejected400(vOut)
       /\ (d.clientType = S_company /\ d.companyName \in {NoneVal, <<>>})
             => Rejected400(vOut)
       /\ (d.clientType = S_individual /\ d.clientName \in {NoneVal, <<>>})
             => Rejected400(vOut)

\* C9: a Contact message with non-blank name and non-blank message is
\* accepted when the message has at most 1000 characters and rejected with
\* 400 when it has 1001 or more.
C9_ContactLengthLimit ==
  (vOut.cls # "pending" /\ vIn.kind = "contact"
     /\ NonBlank(vIn.details.name) /\ NonBlank(vIn.details.message)) =>
    /\ Len(vIn.details.message) <= 1000 => vOut.cls = "None"
    /\ Len(vIn.details.message) >= 1001 => Rejected400(vOut)

C9_Witness ==
  /\ vIn.kind = "contact"
  /\ NonBlank(vIn.details.name)
  /\ Len(vIn.details.message) = 1000
  /\ vOut.cls = "None"

\* C10: every response has status 200, 400 or 500; an error response carries
\* one of the fixed detail messages and never the text of the exception that
\* caused it; a fault that is neither a validation error nor a store fault
\* is answered with 500 and the operator-contact fallback message.
C10_FixedDetails ==
  { "Contact email is required", "Invalid client type",
    "Company name is required for company client type",
    "Client name is required for individual client type",
    "Client type must be 'company' for hiring requests",
    "Company name is required", "Position title is required",
    "Budget is required", "Timeline is required", "Requirements are required",
    "Name is required", "Message is required",
    "Message cannot exceed 1000 characters",
    "Failed to store project details", "Failed to store hiring details",
    "Failed to store contact details",
    "An error occurred. Please try again or contact Muhammad directly at ahmadrajpootr1@gmail.com." }

C10_Unanticipated(e) ==
  e.cls \notin {"None", "HTTPException", "PyMongoError", "ConnectionFailure",
                "OperationFailure"}

C10_ErrorResponsesAreFixed ==
  \A r \in Reqs :
    Done(r) =>
      /\ req[r].resp.status \in {200, 400, 500}
      /\ req[r].resp.status # 200 =>
           /\ req[r].resp.detail \in C10_FixedDetails
           /\ req[r].exc.cls # "HTTPException" => req[r].resp.detail # req[r].exc.text
      /\ C10_Unanticipated(req[r].exc) =>
           req[r].resp =
             [status |-> 500,
              detail |-> "An error occurred. Please try again or contact Muhammad directly at ahmadrajpootr1@gmail.com."]

C10_Witness ==
  \E r1, r2 \in Reqs :
    /\ Done(r1) /\ req[r1].exc.cls = "InvalidDocument" /\ req[r1].resp.status = 500
    /\ Done(r2) /\ req[r2].exc.cls = "RetryError" /\ req[r2].resp.status = 500

\* C11: a request issues at most one insert_one; a failed insert ends the
\* request at once instead of being retried; and the store never holds more
\* than one document of the same request.
C11_RecordsOf(r) ==
  {i \in 1..Len(store) : store[i].request_id = req[r].data.request_id}

C11_SingleInsert ==
  \A r \in Reqs :
    /\ req[r].inserts <= 1
    /\ (req[r].insert_out.cls \notin {"pending", "None"}
          \/ (req[r].insert_out.cls = "None" /\ ~req[r].insert_out.inserted_id))
         => (Done(r) /\ req[r].resp.status = 500)
    /\ req[r].inserts >= 1 => Cardinality(C11_RecordsOf(r)) <= 1

C11_Witness ==
  \E r \in Reqs :
    /\ Done(r)
    /\ req[r].inserts = 1
    /\ req[r].insert_out.cls = "ConnectionFailure"
    /\ req[r].resp.status = 500
    /\ Len(store) = 0

\* C12: with a credential configured a request makes at most 3 provider
\* calls, every call after the first follows an attempt that raised, no call
\* follows an attempt that succeeded, and the response says email_sent =
\* true exactly when an attempt succeeded.
C12_BoundedNotifier ==
  \A r \in Reqs :
    RESEND_API_KEY =>
      /\ req[r].calls <= 3
      /\ req[r].delivered <= 1
      /\ req[r].calls >= 1 =>
           req[r].calls = req[r].raised + req[r].delivered
                            + (IF req[r].pc = "send" THEN 1 ELSE 0)
      /\ req[r].delivered = 1 => Done(r)
      /\ Done(r) =>
           ((req[r].resp.status = 200 /\ req[r].resp.email_sent)
              <=> req[r].delivered = 1)

C12_Witness ==
  \E r \in Reqs :
    /\ RESEND_API_KEY
    /\ Done(r)
    /\ req[r].calls = 3
    /\ req[r].raised = 2
    /\ req[r].delivered = 1
    /\ req[r].resp.status = 200
    /\ req[r].resp.email_sent

\* C13: a connection attempt that fails with a fault other than a
\* connectivity fault is the last attempt, and startup has failed with it;
\* when it is the first attempt, exactly one attempt was made.
C13_OtherFault(i) == connLog[i] \notin {"None", "ConnectionFailure"}

C13_OnlyConnectivityRetried ==
  \A i \in 1..Len(connLog) :
    C13_OtherFault(i) =>
      /\ Len(connLog) = i
      /\ Len(handles) = i
      /\ attempt_number = i
      /\ lifespan = "startup_failed"
      /\ startupError.cls = "HTTPException"

C13_Witness ==
  /\ Len(connLog) = 1
  /\ connLog[1] = "OperationFailure"
  /\ Len(handles) = 1
  /\ lifespan = "startup_failed"

\* C14 (as amended): the connection manager moves only Disconnected ->
\* Connecting -> Ready, Connecting -> Disconnected when connecting is given
\* up (attempts exhausted, or a fault that is not retried), and Ready ->
\* Disconnected on shutdown; the collection handle the request handlers use
\* is set only to a client whose ping succeeded, and is unset after a failed
\* startup.
C14_State ==
  CASE lifespan = "serving" -> "Ready"
    [] lifespan = "connecting" -> "Connecting"
    [] OTHER -> "Disconnected"

C14_Edge ==
  \/ C14_State = "Disconnected" /\ C14_State' = "Connecting" /\ lifespan = "starting"
  \/ C14_State = "Connecting" /\ C14_State' = "Ready"
  \/ C14_State = "Connecting" /\ C14_State' = "Disconnected"
       /\ lifespan' = "startup_failed"
  \/ C14_State = "Ready" /\ C14_State' = "Disconnected" /\ lifespan' = "stopped"

C14_HandleSound ==
  /\ collection # 0 =>
       (collection \in 1..Len(connLog) /\ connLog[collection] = "None")
  /\ lifespan = "startup_failed" => collection = 0
  /\ lifespan = "serving" => collection # 0

C14_ConnectionStateMachine ==
  /\ []C14_HandleSound
  /\ [][C14_State' # C14_State => C14_Edge]_vars

\* C14 as stated: Connecting -> Disconnected happens only when the retries
\* are exhausted, that is after five connectivity faults.
C14_Exhausted ==
  /\ Len(connLog') = 5
  /\ \A i \in 1..5 : connLog'[i] = "ConnectionFailure"

C14_EdgeAsStated ==
  \/ C14_State = "Disconnected" /\ C14_State' = "Connecting" /\ lifespan = "starting"
  \/ C14_State = "Connecting" /\ C14_State' = "Ready"
  \/ C14_State = "Connecting" /\ C14_State' = "Disconnected" /\ C14_Exhausted
  \/ C14_State = "Ready" /\ C14_State' = "Disconnected" /\ lifespan' = "stopped"

C14_AsStated ==
  [][(C14_State' # C14_State => C14_EdgeAsStated) /\ C14_HandleSound']_vars

C14_Witness ==
  /\ lifespan = "stopped"
  /\ Len(connLog) = 3
  /\ connLog[1] = "ConnectionFailure"
  /\ connLog[3] = "None"
  /\ collection = 3

\* C15: once shutdown has completed, every client handle opened while
\* connecting, those of failed attempts included, has been closed exactly
\* once.
C15_EveryHandleClosedOnce ==
  lifespan = "stopped" => \A h \in 1..Len(handles) : handles[h] = 1

\* C16: at most 4 waits separate the connection attempts, each between 4
\* and 10 with the first equal to 4; at most 2 waits separate the e-mail
\* attempts of a request, each between 2 and 5 with the first equal to 2; in
\* either loop no wait is shorter than an earlier one.
C16_WaitsOK(w, most, lo, hi) ==
  /\ Len(w) <= most
  /\ \A i \in 1..Len(w) : lo <= w[i] /\ w[i] <= hi
  /\ Len(w) >= 1 => w[1] = lo
  /\ \A i, j \in 1..Len(w) : i < j => w[i] <= w[j]

C16_BackoffBounded ==
  /\ C16_WaitsOK(connWaits, 4, 4, 10)
  /\ \A r \in Reqs : C16_WaitsOK(req[r].waits, 2, 2, 5)

C16_Witness ==
  /\ Len(connWaits) = 4
  /\ \E r \in Reqs : Len(req[r].waits) = 2

\* C17: validation reports the first violated rule in the listed order and
\* accepts a submission that violates none.  Hiring: clientType, companyName,
\* positionTitle, budget, timeline, requirements, contactEmail.  Contact:
\* name, message blank, message length.  Project: contactEmail, clientType
\* value, companyName, clientName.
C17_Blank(t) == \A i \in 1..Len(t) : t[i] \in {" ", "\t", "\n"}

C17_Missing(v) == v = NoneVal \/ v = <<>>

C17_HiringRules(d) ==
  << <<d.clientType # S_company, "Client type must be 'company' for hiring requests">>,
     <<C17_Blank(d.companyName), "Company name is required">>,
     <<C17_Blank(d.positionTitle), "Position title is required">>,
     <<C17_Blank(d.budget), "Budget is required">>,
     <<C17_Blank(d.timeline), "Timeline is required">>,
     <<C17_Blank(d.requirements), "Requirements are required">>,
     <<C17_Missing(d.contactEmail), "Contact email is required">> >>

C17_ContactRules(d) ==
  << <<C17_Blank(d.name), "Name is required">>,
     <<C17_Blank(d.message), "Message is required">>,
     <<Len(d.message) > 1000, "Message cannot exceed 1000 characters">> >>

C17_ProjectRules(d) ==
  << <<C17_Missing(d.contactEmail), "Contact email is required">>,
     <<d.clientType # NoneVal /\ d.clientType \notin {S_company, S_individual},
       "Invalid client type">>,
     <<d.clientType = S_company /\ C17_Missing(d.companyName),
       "Company name is required for company client type">>,
     <<d.clientType = S_individual /\ C17_Missing(d.clientName),
       "Client name is required for individual client type">> >>

C17_Rules ==
  CASE vIn.kind = "project" -> C17_ProjectRules(vIn.details)
    [] vIn.kind = "hiring"  -> C17_HiringRules(vIn.details)
    [] vIn.kind = "contact" -> C17_ContactRules(vIn.details)

C17_Violated == {i \in 1..Len(C17_Rules) : C17_Rules[i][1]}

C17_FirstViolationWins ==
  vOut.cls # "pending" =>
    IF C17_Violated = {}
      THEN vOut.cls = "None"
      ELSE LET first == CHOOSE i \in C17_Violated : \A j \in C17_Violated : i <= j
           IN vOut = [cls |-> "HTTPException", status_code |-> 400,
                      detail |-> C17_Rules[first][2]]

\* C18: in every interleaving of the requests, a request has called the
\* provider only after its own insert succeeded; a 200 response carries the
\* request_id of the document that same request inserted and of no other
\* request; and no step of a request handler changes the shared store
\* handle or the e-mail credential.
C18_Isolated ==
  \A r \in Reqs :
    /\ req[r].calls >= 1 =>
         /\ req[r].insert_out = [cls |-> "None", inserted_id |-> TRUE]
         /\ Stored(r)
         /\ store[req[r].stored_at] = req[r].data
    /\ (Done(r) /\ req[r].resp.status = 200) =>
         /\ Stored(r)
         /\ req[r].resp.request_id = store[req[r].stored_at].request_id
         /\ \A q \in Reqs \ {r} :
              req[q].inserts >= 1 => req[r].resp.request_id # req[q].data.request_id

C18_SharedUntouched ==
  req' # req => UNCHANGED <<client, db, collection, RESEND_API_KEY>>

C18_NoCrossRequestRaces ==
  /\ []C18_Isolated
  /\ [][C18_SharedUntouched]_vars

C18_Witness ==
  /\ MaxRequests >= 2
  /\ RESEND_API_KEY
  /\ req[1].resp.status = 200 /\ req[2].resp.status = 200
  /\ req[2].stored_at = 1 /\ req[1].stored_at = 2
  /\ req[1].calls >= 1 /\ req[2].calls >= 1

\* C19: a request that ended with a 400 or 500 response has left no
\* document in the store.
C19_ErrorLeavesNoRecord ==
  \A r \in Reqs :
    (Done(r) /\ req[r].resp.status \in {400, 500}) => ~Stored(r)

\* C20: every request that has started ends with a response, which is then
\* never replaced, after at most one insert and three provider calls; and
\* connection establishment ends in Ready or in a failed startup after at
\* most five attempts.
C20_Budget ==
  /\ Len(handles) <= 5
  /\ Len(connLog) <= 5
  /\ \A r \in Reqs : req[r].inserts <= 1 /\ req[r].calls <= 3

C20_ResponseFinal ==
  \A r \in Reqs : Done(r) => req'[r] = req[r]

C20_Terminates ==
  /\ \A r \in LiveReqs : (req[r].pc # "idle") ~> (Done(r) /\ req[r].resp.status # 0)
  /\ <>(lifespan \in {"serving", "startup_failed"})
  /\ []C20_Budget
  /\ [][C20_ResponseFinal]_vars

C20_Witness ==
  /\ Len(connLog) = 5
  /\ lifespan = "serving"
  /\ \E r \in Reqs : Done(r) /\ req[r].inserts = 1 /\ req[r].calls = 3

TypeOK ==
  /\ lifespan \in {"starting", "connecting", "serving", "startup_failed", "stopped"}
  /\ \A r \in Reqs : req[r].pc \in {"idle", "insert", "send", "done"}

====
